---- MODULE Spec2Model ----
(***************************************************************************)
(* Model of megu's HTTP resource-fetch engine                              *)
(* (src/src/megu/download/http.py, src/src/megu/utils.py).                 *)
(*                                                                         *)
(*   SpecRanges   the range planner HttpDownloader._iter_ranges, stepped   *)
(*                as the generator it is                                   *)
(*   Spec         one call of HttpDownloader.download_resource with the    *)
(*                Normal and Partial handlers and allocate_storage         *)
(*   SpecContent  HttpDownloader.download_content: the thread pool, the    *)
(*                as_completed loop and the manifest                       *)
(*                                                                         *)
(* Python's None is the empty tuple <<>>, a present value v is <<v>>.      *)
(***************************************************************************)
EXTENDS Integers, Sequences, FiniteSets, TLC

None == <<>>
Some(v) == <<v>>
Val(o) == o[1]

\* ------------------------------------------------------ text and parsing
\* header values are tuples of one-character strings
Digits == <<"0", "1", "2", "3", "4", "5", "6", "7", "8", "9">>
IsDigit(c) == \E i \in 1..10 : Digits[i] = c
DigitVal(c) == (CHOOSE i \in 1..10 : Digits[i] = c) - 1
IsSpace(c) == c = " "

\* str(n) of a non-negative int
RECURSIVE Str(_)
Str(n) == IF n < 10 THEN <<Digits[n + 1]>> ELSE Str(n \div 10) \o <<Digits[(n % 10) + 1]>>

\* int(s) of a string of decimal digits
RECURSIVE ToInt(_)
ToInt(s) ==
  IF Len(s) = 1 THEN DigitVal(s[1])
  ELSE 10 * ToInt(SubSeq(s, 1, Len(s) - 1)) + DigitVal(s[Len(s)])

AllDigits(s) == Len(s) >= 1 /\ \A i \in 1..Len(s) : IsDigit(s[i])

\* str.strip()
RECURSIVE LStrip(_)
LStrip(s) == IF s # <<>> /\ IsSpace(s[1]) THEN LStrip(Tail(s)) ELSE s
RECURSIVE RStrip(_)
RStrip(s) ==
  IF s # <<>> /\ IsSpace(s[Len(s)]) THEN RStrip(SubSeq(s, 1, Len(s) - 1)) ELSE s
Strip(s) == RStrip(LStrip(s))

\* (?:(?:(?P<start>\d+)-(?P<end>\d+))|\*) : the dash positions at which `a` is
\* digits "-" digits
RangeDashes(a) ==
  {d \in 1..Len(a) : a[d] = "-" /\ AllDigits(SubSeq(a, 1, d - 1))
                       /\ AllDigits(SubSeq(a, d + 1, Len(a)))}
\* the slash positions at which `t` is (start-end | *) "/" (digits | *)
TailSlashes(t) ==
  {p \in 1..Len(t) :
     /\ t[p] = "/"
     /\ LET a == SubSeq(t, 1, p - 1)
            b == SubSeq(t, p + 1, Len(t))
        IN /\ (b = <<"*">> \/ AllDigits(b))
           /\ (a = <<"*">> \/ RangeDashes(a) # {})}
PatternSplits_OptionalSpace(s) ==
  {ij \in (0..Len(s)) \X (0..Len(s)) :
     /\ ij[1] <= ij[2]
     /\ \A k \in (ij[1] + 1)..ij[2] : IsSpace(s[k])
     /\ TailSlashes(SubSeq(s, ij[2] + 1, Len(s))) # {}}

\* the ways ^(?P<unit>.*)\s+ TAIL $ splits s: unit = s[1..i], \s+ = s[i+1..j]
\* (the alphabet of the model holds no line break, so `.` matches every character)
PatternSplits(s) ==
  {ij \in (0..Len(s)) \X (1..Len(s)) :
     /\ ij[1] < ij[2]
     /\ \A k \in (ij[1] + 1)..ij[2] : IsSpace(s[k])
     /\ TailSlashes(SubSeq(s, ij[2] + 1, Len(s))) # {}}
Max(S) == CHOOSE m \in S : \A x \in S : x <= m

\* CONTENT_RANGE_PATTERN.match(s): None, or the match's groupdict(): every named
\* group is a key, a group that took no part in the match maps to None.  The
\* greedy `.*` takes the longest unit that still lets the rest match.
ContentRangeMatch(s) ==
  IF PatternSplits(s) = {} THEN None
  ELSE LET i == Max({ij[1] : ij \in PatternSplits(s)})
           j == Max({ij[2] : ij \in {x \in PatternSplits(s) : x[1] = i}})
           t == SubSeq(s, j + 1, Len(s))
           p == CHOOSE q \in TailSlashes(t) : TRUE
           a == SubSeq(t, 1, p - 1)
           b == SubSeq(t, p + 1, Len(t))
           d == IF a = <<"*">> THEN 0 ELSE CHOOSE q \in RangeDashes(a) : TRUE
       IN Some([unit |-> Some(SubSeq(s, 1, i)),
                start |-> IF d = 0 THEN None ELSE Some(SubSeq(a, 1, d - 1)),
                end |-> IF d = 0 THEN None ELSE Some(SubSeq(a, d + 1, Len(a))),
                size |-> Some(b)])

RangeHeader_EndFirst(unit, start, end) == unit \o <<"=">> \o Str(end) \o <<"-">> \o Str(start)
\* f"{unit!s}={start!s}-{end!s}"
RangeHeader(unit, start, end) == unit \o <<"=">> \o Str(start) \o <<"-">> \o Str(end)

\* response.iter_content(chunk_size): the body cut into chunks of chunk_size bytes,
\* the last one shorter
RECURSIVE IterContent(_, _)
IterContent(body, n) ==
  IF body = <<>> THEN <<>>
  ELSE IF Len(body) <= n THEN <<body>>
  ELSE <<SubSeq(body, 1, n)>> \o IterContent(SubSeq(body, n + 1, Len(body)), n)

\* the bytes a loop of file_handle.write(chunk) leaves behind
RECURSIVE WriteAll(_, _)
WriteAll(data, chunks) ==
  IF chunks = <<>> THEN data ELSE WriteAll(data \o Head(chunks), Tail(chunks))
\* the arguments update_hook is called with, one call per chunk
HookArgs(chunks) == [i \in 1..Len(chunks) |-> Len(chunks[i])]

\* ---------------------------------------------------------------- bounds
\* planner inputs of SpecRanges
\* the planner is also tried from -MaxBelow up
MaxBelow == 1
MaxStart == 3
MaxEnd == 4
MaxTotal == 5
\* ranges drawn from a planner without a known size before the model stops
MaxYield == 4
\* Content-Range values of the first response: start, end and size drawn from here
MaxRangeStart == 1
MaxRangeEnd == 2
MaxSize == 4
\* chunk sizes and resource indexes handed to download_resource
MaxChunk == 2
MaxIndex == 1
\* follow-up requests of one range chase before the model stops the server
MaxFollow == 4
\* resources of a content item and workers of the pool
MaxResources == 3
MaxConnections == 3
\* SpecAllocate: sizes from -MaxBelow up to MaxAllocSize, MaxCalls calls in a row
MaxAllocSize == 3
MaxCalls == 2
\* SpecDispatch: resources of a content, downloaders of a registry
MaxKinds == 3
MaxRegistry == 2
\* SpecFingerprint: reads of the fingerprint property of one resource
MaxReads == 2
\* SpecService: content items of one run
MaxItems == 3

VARIABLES
  \* --- SpecRanges: one _iter_ranges generator
  rArgs,      \* the arguments of the call: [start, end, size, chunk_size]
  rGen,       \* the generator frame: the local variables start and end
  rYielded,   \* the ranges yielded so far, in order
  rDone       \* TRUE once the generator has raised StopIteration

rangeVars == <<rArgs, rGen, rYielded, rDone>>

VARIABLES
  \* --- Spec: one call of download_resource
  pc,             \* where the call is
  resource,       \* the resource argument
  resHeaders,     \* resource.headers: the value under "Range", or None
  resource_index, to_path, chunk_size,
  update_hook,    \* TRUE when a hook is given, FALSE for None
  file,           \* the file at to_path: [exists, data]
  file0,          \* the file at to_path when the call began
  srvSize,        \* the number of bytes the server holds for the resource
  response,       \* the response of the initial request
  next_response,  \* the response of the latest follow-up request
  requests,       \* the requests sent so far: the Range header each carried
  calls,          \* the handler invocations so far
  allocs,         \* the sizes allocate_storage was called with
  hookCalls,      \* the arguments of the update_hook calls so far
  events,         \* the writes to the file and the update_hook calls, in the order made
  range_groups,   \* _download_partial's range_groups (None before the match)
  total_size,     \* _download_partial's total_size
  gen,            \* the frame of range_iterator (None before it exists)
  outcome,        \* how the call ended: [kind, exc, why, status]
  result          \* the tuple download_resource returned (None before)

fetchVars == <<pc, resource, resHeaders, resource_index, to_path, chunk_size,
               update_hook, file, file0, srvSize, response, next_response, requests,
               calls, allocs, hookCalls, events, range_groups, total_size, gen,
               outcome, result>>

VARIABLES
  \* --- SpecContent: one call of download_content
  oc,               \* where download_content is
  content,          \* the content argument: [id, resources]
  max_connections,
  futures,          \* the state of the future of each resource, by position
  completed,        \* the futures that finished, in the order they finished
  doneAtWait,       \* the futures that had finished when as_completed was called
  yielded,          \* the futures as_completed has yielded, in order
  results,          \* download_content's results list
  raising,          \* the exception on its way out of the with block, or None
  pendingAtRaise,   \* the futures not yet finished when that exception was raised
  manifest,         \* the Manifest returned (None before)
  raisedErr         \* the exception download_content raised (None before)

contentVars == <<oc, content, max_connections, futures, completed, doneAtWait,
                 yielded, results, raising, pendingAtRaise, manifest, raisedErr>>

VARIABLES
  \* --- SpecAllocate: calls of allocate_storage on one directory tree
  apc,        \* "call" while a call is about to run, "done" once it has ended
  aPath,      \* the to_path argument: the names from the root down to the file
  aSize,      \* the size argument
  fs,         \* the tree: [dirs: the directories there, files: path -> bytes or None]
  fsBefore,   \* the tree when the call began
  aOutcome,   \* how the call ended: returned or the exception raised
  aResult,    \* the value the call returned (None before)
  aCalls      \* the number of calls begun

allocVars == <<apc, aPath, aSize, fs, fsBefore, aOutcome, aResult, aCalls>>

VARIABLES
  \* --- SpecDispatch: one call of a get_downloader function
  dpc,        \* "loop" while the for loop runs, "done" once the call has ended
  dFn,        \* the function called: "services", "download" or "megu"
  dContent,   \* content.resources: the kind of each resource
  dRegistry,  \* the downloader classes the function iterates, in order
  dPos,       \* the position of the loop in dRegistry
  dChecked,   \* the can_handle calls made so far: [downloader, handled]
  dOutcome    \* what the call returned or raised

dispatchVars == <<dpc, dFn, dContent, dRegistry, dPos, dChecked, dOutcome>>

VARIABLES
  \* --- SpecFingerprint: two HttpResource objects and their fingerprint property
  fRes,       \* the two resources: [method, url, headers, data]
  fCache,     \* what cached_property holds for each: the fingerprint, or None
  fSeen       \* the values resource.fingerprint returned, per resource, in order

fingerVars == <<fRes, fCache, fSeen>>

VARIABLES
  \* --- SpecService: one run of the generator megu.download
  spc,        \* "loop" at the head of the for loop, "fetch" after get_downloader, "done"
  sItems,     \* the content items the sieve gives, in order
  sExistsOk, sOverwrite,   \* the exists_ok and overwrite arguments
  sPos,       \* the position of the loop in sItems
  sYielded,   \* the positions of the items whose written path was yielded, in order
  sRaised     \* the exception that left the generator (None when none did)

serviceVars == <<spc, sItems, sExistsOk, sOverwrite, sPos, sYielded, sRaised>>
otherVars == <<allocVars, dispatchVars, fingerVars, serviceVars>>
vars == <<rangeVars, fetchVars, contentVars, otherVars>>

\* ------------------------------------------------------- the range planner
LoopCondition_Strict(end, size) == IF size # None THEN end < Val(size) ELSE TRUE
\* _loop_condition(end, size)
LoopCondition(end, size) == IF size # None THEN end <= Val(size) ELSE TRUE

RangeStep_FirstWidth(start, end, chunk) == (end - start) + 1
\* the width added to end after a yield: chunk_size if chunk_size else (end - start) + 1
RangeStep(start, end, chunk) ==
  IF chunk # None /\ Val(chunk) # 0 THEN Val(chunk) ELSE (end - start) + 1

GenYields_NoBreak(g, size) == LoopCondition(g.end, size)

\* the generator is about to yield (start, end): the while condition holds and
\* the `if start > end: break` does not fire
GenYields(g, size) == LoopCondition(g.end, size) /\ ~(g.start > g.end)

GenAdvance_NoCap(g, size, chunk) ==
  [start |-> g.end + 1, end |-> g.end + RangeStep(g.start, g.end, chunk)]

\* the frame after one yield: next_end capped at size, start = end + 1
GenAdvance(g, size, chunk) ==
  LET next_end == g.end + RangeStep(g.start, g.end, chunk)
      capped == IF size # None /\ next_end > Val(size) THEN Val(size) ELSE next_end
  IN [start |-> g.end + 1, end |-> capped]

\* sorted(results, key=lambda result: result[0]): a stable sort
RECURSIVE InsertByIndex(_, _)
InsertByIndex(x, sorted) ==
  IF sorted = <<>> THEN <<x>>
  ELSE IF x[1] < Head(sorted)[1] THEN <<x>> \o sorted
  ELSE <<Head(sorted)>> \o InsertByIndex(x, Tail(sorted))
RECURSIVE SortedFrom(_, _)
SortedFrom(acc, rest) ==
  IF rest = <<>> THEN acc ELSE SortedFrom(InsertByIndex(Head(rest), acc), Tail(rest))
SortedByIndex_Unsorted(rs) == rs
SortedByIndex(rs) == SortedFrom(<<>>, rs)

\* SpecRanges is not running
RangesIdle ==
  /\ rArgs = [start |-> 0, end |-> 0, size |-> None, chunk_size |-> None]
  /\ rGen = [start |-> 0, end |-> 0]
  /\ rYielded = <<>>
  /\ rDone = TRUE

\* ------------------------------------------------ files and allocate_storage
NoFile == [exists |-> FALSE, data |-> <<>>]
\* bytes left at the path by an earlier run; the server's bytes are 1.., a
\* pre-allocated byte is 0
StaleFile == [exists |-> TRUE, data |-> <<9, 9, 9>>]
Zeros_SeekOnly(n) == [i \in 1..(n - 1) |-> 0]
\* the bytes of a new file after seek(n - 1) and write(b"\x00")
Zeros(n) == [i \in 1..n |-> 0]

NoOutcome == [kind |-> "none", exc |-> "", why |-> "", status |-> None]
Returned == [kind |-> "ok", exc |-> "", why |-> "", status |-> None]
Raised(exc, why, status) == [kind |-> "error", exc |-> exc, why |-> why, status |-> status]

\* allocate_storage: the sizes it refuses
InvalidSize_Negative(size) == size < 0
InvalidSize(size) == size <= 0

AllocateStorage_Overwrite(f, size) ==
  IF InvalidSize(size) THEN [raised |-> Some(Raised("ValueError", "invalid size", None)), file |-> f]
  ELSE [raised |-> None, file |-> [exists |-> TRUE, data |-> Zeros(size)]]

\* allocate_storage(to_path, size): the exception it raises (or None) and the file
\* it leaves at to_path
AllocateStorage(f, size) ==
  IF InvalidSize(size) THEN [raised |-> Some(Raised("ValueError", "invalid size", None)), file |-> f]
  ELSE IF f.exists
    THEN [raised |-> Some(Raised("FileExistsError", "already exists", None)), file |-> f]
  ELSE [raised |-> None, file |-> [exists |-> TRUE, data |-> Zeros(size)]]

\* to_path.open("wb") truncates or creates; the loop writes every chunk
OpenWriteAll(body, n) == [exists |-> TRUE, data |-> WriteAll(<<>>, IterContent(body, n))]
\* to_path.open("ab") keeps what is there
OpenAppendAll(f, body, n) == [exists |-> TRUE, data |-> WriteAll(f.data, IterContent(body, n))]

\* the directory tree allocate_storage works on: the root is always there
FilePaths == {<<"f">>, <<"a", "f">>, <<"a", "b", "f">>}
DirPaths == {<<"a">>, <<"a", "b">>}
\* to_path.parent
Parent(p) == SubSeq(p, 1, Len(p) - 1)
\* the directories above p, the root left out
Ancestors(p) == {SubSeq(p, 1, k) : k \in 1..(Len(p) - 1)}
\* Path.is_dir()
IsDir(t, p) == p = <<>> \/ p \in t.dirs
\* what is at p, as [exists, data]
FileAt(t, p) ==
  IF t.files[p] = None THEN NoFile ELSE [exists |-> TRUE, data |-> Val(t.files[p])]
\* to_path.parent.mkdir(parents=True) when the parent is not a directory
MkdirParents(t, p) == IF IsDir(t, Parent(p)) THEN t.dirs ELSE t.dirs \cup Ancestors(p)
EmptyTree == [dirs |-> {}, files |-> [p \in FilePaths |-> None]]
\* the trees a call can find: a directory or a file is there only under a directory
Trees ==
  {t \in [dirs : SUBSET DirPaths,
          files : [FilePaths -> {None, Some(<<9>>), Some(StaleFile.data)}]] :
     /\ \A d \in t.dirs : IsDir(t, Parent(d))
     /\ \A p \in FilePaths : t.files[p] # None => IsDir(t, Parent(p))}

\* SpecAllocate is not running
AllocIdle ==
  /\ apc = "idle" /\ aPath = <<"f">> /\ aSize = 1 /\ fs = EmptyTree /\ fsBefore = EmptyTree
  /\ aOutcome = NoOutcome /\ aResult = None /\ aCalls = 0

\* SpecDispatch is not running
DispatchIdle ==
  /\ dpc = "idle" /\ dFn = "services" /\ dContent = <<>> /\ dRegistry = <<>>
  /\ dPos = 1 /\ dChecked = <<>>
  /\ dOutcome = [kind |-> "none", downloader |-> "", via |-> ""]

\* SpecFingerprint is not running
FingerIdle == fRes = <<>> /\ fCache = <<>> /\ fSeen = <<>>

\* SpecService is not running
ServiceIdle ==
  /\ spc = "idle" /\ sItems = <<>> /\ sExistsOk = TRUE /\ sOverwrite = TRUE
  /\ sPos = 1 /\ sYielded = <<>> /\ sRaised = None
OtherIdle == AllocIdle /\ DispatchIdle /\ FingerIdle /\ ServiceIdle

\* ------------------------------------------------------------ the server
\* the bytes at offsets a..b of the resource: the byte at offset k is k + 1
Slice(a, b) == [i \in 1..(b - a + 1) |-> a + i]
Min(a, b) == IF a <= b THEN a ELSE b

\* Content-Range values: "b s-e/size", "b s-e/*", the unsatisfied form "b */size"
\* and values the pattern rejects
FormatContentRange(s, e, z) ==
  <<"b", " ">> \o Str(s) \o <<"-">> \o Str(e) \o <<"/">> \o (IF z = None THEN <<"*">> ELSE Str(Val(z)))
DeclaredSizes == {None} \cup {Some(n) : n \in 0..MaxSize}
WellFormedRanges ==
  {FormatContentRange(s, e, z) : s \in 0..MaxRangeStart, e \in 0..MaxRangeEnd, z \in DeclaredSizes}
UnsatisfiedRange == <<"b", " ", "*", "/">> \o Str(MaxSize)
UnsatisfiedRanges == {UnsatisfiedRange, <<"b", " ", "*", "/", "*">>, <<"b", " ", "*", "/", "0">>}
MalformedRanges ==
  {<<"b">>, <<"b", " ", "0", "-", "*", "/", "*">>, <<"0", "-", "1", "/", "4">>,
   <<"b", " ", "0", "-", "1", "/">>, <<>>}
SpacedRanges == {<<" ", "b", " ", " ", "0", "-", "1", "/", "*", " ">>}
ContentRanges == WellFormedRanges \cup UnsatisfiedRanges \cup MalformedRanges \cup SpacedRanges

InitialStatuses == {100, 200, 201, 204, 206, 300, 400, 404, 416, 500}
ContentLengths == {None} \cup {Some(Str(n)) : n \in {0, 2, MaxSize}}

\* the body the server sends with a first response
FirstBody(status, range, size) ==
  IF status \notin {200, 206} THEN <<>>
  ELSE IF status = 206 /\ range # None /\ ContentRangeMatch(Strip(Val(range))) # None
          /\ Val(ContentRangeMatch(Strip(Val(range)))).start # None
    THEN LET g == Val(ContentRangeMatch(Strip(Val(range))))
         IN Slice(ToInt(Val(g.start)), Min(ToInt(Val(g.end)), size - 1))
  ELSE Slice(0, size - 1)

InitialResponses(size) ==
  {[status |-> st, length |-> len, range |-> rg, body |-> FirstBody(st, rg, size)] :
     st \in InitialStatuses, len \in ContentLengths,
     rg \in {None} \cup {Some(h) : h \in ContentRanges}}

\* the page an error answer carries: its bytes are none of the resource's
ErrorBody == <<0, 0>>

\* the answers to a follow-up request for the bytes s..e: the bytes asked for, what
\* a server holding `size` bytes sends, or an error
FollowUpResponses(s, e, size) ==
  {[status |-> 206, length |-> None, range |-> None, body |-> Slice(s, e)]}
  \cup {IF s >= size
          THEN [status |-> 416, length |-> None, range |-> None, body |-> ErrorBody]
          ELSE [status |-> 206, length |-> None, range |-> None,
                body |-> Slice(s, Min(e, size - 1))]}
  \cup {[status |-> st, length |-> None, range |-> None, body |-> ErrorBody] : st \in {404, 416}}

Ok_Lenient(r) == r.status < 500
\* requests.Response.ok: raise_for_status() does not raise
Ok(r) == r.status < 400

NoResponse == [status |-> 0, length |-> None, range |-> None, body |-> <<>>]

\* SpecContent is not running
ContentIdle ==
  /\ oc = "idle" /\ content = [id |-> "c", resources |-> <<>>] /\ max_connections = 1
  /\ futures = <<>> /\ completed = <<>> /\ doneAtWait = {} /\ yielded = <<>>
  /\ results = <<>> /\ raising = None /\ pendingAtRaise = {}
  /\ manifest = None /\ raisedErr = None

\* --------------------------------------------------------------- Spec
Resources == {"A", "B"}
\* resource B already carries a Range header
InitialHeaders(r) == IF r = "B" THEN Some(<<"b", "=", "0", "-", "9">>) ELSE None
StagingPath_NoFingerprint(content_id, r) == <<"staging", content_id>>
\* STAGING_DIR.joinpath(f"{content.id!s}.{resource.fingerprint!s}")
StagingPath(content_id, r) == <<"staging", content_id, r>>

FetchIdle ==
  /\ pc = "idle"
  /\ resource = "A" /\ resHeaders = None /\ resource_index = 0
  /\ to_path = StagingPath("c", "A") /\ chunk_size = 1 /\ update_hook = FALSE
  /\ file = NoFile /\ file0 = NoFile /\ srvSize = 0
  /\ response = NoResponse /\ next_response = NoResponse
  /\ requests = <<>> /\ calls = <<>> /\ allocs = <<>> /\ hookCalls = <<>> /\ events = <<>>
  /\ range_groups = None /\ total_size = None /\ gen = None
  /\ outcome = NoOutcome /\ result = None

Init ==
  /\ RangesIdle /\ ContentIdle /\ OtherIdle
  /\ pc = "start"
  /\ resource \in Resources
  /\ resHeaders = InitialHeaders(resource)
  /\ resource_index \in 0..MaxIndex
  /\ to_path = StagingPath("c", resource)
  /\ chunk_size \in 1..MaxChunk
  /\ update_hook \in BOOLEAN
  /\ file \in {NoFile, StaleFile}
  /\ file0 = file
  /\ srvSize \in {2, MaxSize}
  /\ response = NoResponse /\ next_response = NoResponse
  /\ requests = <<>> /\ calls = <<>> /\ allocs = <<>> /\ hookCalls = <<>> /\ events = <<>>
  /\ range_groups = None /\ total_size = None /\ gen = None
  /\ outcome = NoOutcome /\ result = None

Call(handler, by) ==
  [handler |-> handler, by |-> by, resource |-> resource, response |-> response,
   to_path |-> to_path, chunk_size |-> chunk_size, update_hook |-> update_hook]

\* the record of one _request_resource call: who sent it, the Range header it
\* carried (resource.headers at that moment), the bytes it asked for, the answer
Sent(by, asked, answer) ==
  [by |-> by, resource |-> resource, range |-> IF asked = None THEN resHeaders
     ELSE Some(RangeHeader(Val(Val(range_groups).unit), Val(asked)[1], Val(asked)[2])),
   asked |-> asked, answer |-> answer]

ChunkEvents_HookFirst(chunk, hooked) ==
  (IF hooked THEN <<[op |-> "hook", n |-> Len(chunk)]>> ELSE <<>>)
    \o <<[op |-> "write", n |-> Len(chunk)]>>
\* the body of `for chunk in ...iter_content(chunk_size)`: file_handle.write(chunk),
\* then update_hook(len(chunk)) when a hook is given
ChunkEvents(chunk, hooked) ==
  <<[op |-> "write", n |-> Len(chunk)]>>
    \o (IF hooked THEN <<[op |-> "hook", n |-> Len(chunk)]>> ELSE <<>>)

\* the whole loop over the chunks of one body
RECURSIVE LoopEvents(_, _)
LoopEvents(chunks, hooked) ==
  IF chunks = <<>> THEN <<>>
  ELSE ChunkEvents(Head(chunks), hooked) \o LoopEvents(Tail(chunks), hooked)

Hooked(body) == IF update_hook THEN hookCalls \o HookArgs(IterContent(body, chunk_size)) ELSE hookCalls

\* download_resource: response = self._request_resource(resource)
RequestResource ==
  /\ pc = "start"
  /\ \E r \in InitialResponses(srvSize) :
       /\ response' = r
       /\ requests' = Append(requests, Sent("download_resource", None, r))
  /\ pc' = "resolved"
  /\ UNCHANGED <<otherVars, rangeVars, contentVars, file0, resource, resHeaders, resource_index, to_path, chunk_size, update_hook,
                 file, srvSize, next_response, calls, allocs, hookCalls, events, range_groups,
                 total_size, gen, outcome, result>>

\* status_handlers
HandledStatuses_Any == 100..599
\* the keys of status_handlers
HandledStatuses == {200, 206}
StatusHandler_Swapped(status) == IF status = 200 THEN "partial" ELSE "normal"
\* status_handlers.get(response.status_code, self._download_normal)
StatusHandler(status) ==
  IF status = 200 THEN "normal" ELSE IF status = 206 THEN "partial" ELSE "normal"

\* download_resource: the branch on the response status
Dispatch ==
  /\ pc = "resolved"
  /\ IF ~Ok(response)
       THEN /\ outcome' = Raised("ValueError", "error status", Some(response.status))
            /\ pc' = "done" /\ calls' = calls
     ELSE IF response.status = 204
       THEN /\ outcome' = Raised("ValueError", "no content", None)
            /\ pc' = "done" /\ calls' = calls
     ELSE IF response.status \in HandledStatuses
       THEN /\ calls' = Append(calls, Call(StatusHandler(response.status), "download_resource"))
            /\ pc' = StatusHandler(response.status)
            /\ outcome' = outcome
     ELSE /\ outcome' = Raised("ValueError", "unhandled status", Some(response.status))
          /\ pc' = "done" /\ calls' = calls
  /\ UNCHANGED <<otherVars, rangeVars, contentVars, file0, resource, resHeaders, resource_index, to_path, chunk_size, update_hook,
                 file, srvSize, response, next_response, requests, allocs, hookCalls, events,
                 range_groups, total_size, gen, result>>

\* _download_normal: allocate_storage when the response has a content-length
NormalAllocate ==
  /\ pc = "normal"
  /\ IF response.length # None
       THEN LET size == ToInt(Val(response.length))
                a == AllocateStorage(file, size)
            IN /\ allocs' = Append(allocs, size)
               /\ file' = a.file
               /\ IF a.raised # None
                    THEN outcome' = Val(a.raised) /\ pc' = "done"
                    ELSE outcome' = outcome /\ pc' = "normal_write"
       ELSE /\ pc' = "normal_write"
            /\ UNCHANGED <<allocs, file, outcome>>
  /\ UNCHANGED <<otherVars, rangeVars, contentVars, file0, resource, resHeaders, resource_index, to_path, chunk_size, update_hook,
                 srvSize, response, next_response, requests, calls, hookCalls, events,
                 range_groups, total_size, gen, result>>

\* _download_normal: open("wb"), stream the body, return to_path
NormalWrite ==
  /\ pc = "normal_write"
  /\ file' = OpenWriteAll(response.body, chunk_size)
  /\ hookCalls' = Hooked(response.body)
  /\ events' = events \o LoopEvents(IterContent(response.body, chunk_size), update_hook)
  /\ result' = Some(<<resource_index, resource, to_path>>)
  /\ outcome' = Returned
  /\ pc' = "done"
  /\ UNCHANGED <<otherVars, rangeVars, contentVars, file0, resource, resHeaders, resource_index, to_path, chunk_size, update_hook,
                 srvSize, response, next_response, requests, calls, allocs,
                 range_groups, total_size, gen>>

TotalSize_ZeroUnknown(range_size) ==
  IF range_size # None /\ Val(range_size) \notin {<<>>, <<"*">>, <<"0">>}
    THEN Some(ToInt(Val(range_size))) ELSE None
\* total_size: int(range_size) unless the size group is missing, empty or "*"
TotalSize(range_size) ==
  IF range_size # None /\ Val(range_size) \notin {<<>>, <<"*">>}
    THEN Some(ToInt(Val(range_size))) ELSE None

\* _download_partial: the three fallback checks, then range_size and total_size
PartialParse ==
  /\ pc = "partial"
  /\ LET range_match == IF response.range = None THEN None
                        ELSE ContentRangeMatch(Strip(Val(response.range)))
         fallback == \/ response.range = None
                     \/ range_match = None
                     \/ "start" \notin DOMAIN Val(range_match)
                     \/ "end" \notin DOMAIN Val(range_match)
     IN IF fallback
          THEN /\ calls' = Append(calls, Call("normal", "_download_partial"))
               /\ pc' = "normal"
               /\ UNCHANGED <<range_groups, total_size>>
          ELSE LET range_size == Val(range_match).size
               IN /\ range_groups' = range_match
                  /\ total_size' = TotalSize(range_size)
                  /\ pc' = "partial_alloc"
                  /\ calls' = calls
  /\ UNCHANGED <<otherVars, rangeVars, contentVars, file0, resource, resHeaders, resource_index, to_path, chunk_size, update_hook,
                 file, srvSize, response, next_response, requests, allocs, hookCalls, events,
                 gen, outcome, result>>

\* _download_partial: allocate_storage when total_size is known
PartialAllocate ==
  /\ pc = "partial_alloc"
  /\ IF total_size # None
       THEN LET a == AllocateStorage(file, Val(total_size))
            IN /\ allocs' = Append(allocs, Val(total_size))
               /\ file' = a.file
               /\ IF a.raised # None
                    THEN outcome' = Val(a.raised) /\ pc' = "done"
                    ELSE outcome' = outcome /\ pc' = "partial_first"
       ELSE /\ pc' = "partial_first"
            /\ UNCHANGED <<allocs, file, outcome>>
  /\ UNCHANGED <<otherVars, rangeVars, contentVars, file0, resource, resHeaders, resource_index, to_path, chunk_size, update_hook,
                 srvSize, response, next_response, requests, calls, hookCalls, events,
                 range_groups, total_size, gen, result>>

\* _download_partial: open("wb") and stream the body of the first response
PartialFirst ==
  /\ pc = "partial_first"
  /\ file' = OpenWriteAll(response.body, chunk_size)
  /\ hookCalls' = Hooked(response.body)
  /\ events' = events \o LoopEvents(IterContent(response.body, chunk_size), update_hook)
  /\ pc' = "partial_plan"
  /\ UNCHANGED <<otherVars, rangeVars, contentVars, file0, resource, resHeaders, resource_index, to_path, chunk_size, update_hook,
                 srvSize, response, next_response, requests, calls, allocs,
                 range_groups, total_size, gen, outcome, result>>

SkipFirst_Keep(g, size) == g
\* next(range_iterator): the first range, the one of the response at hand, is
\* taken off the iterator
SkipFirst(g, size) == GenAdvance(g, size, None)

\* _download_partial: build range_iterator and skip its first range
PartialPlan ==
  /\ pc = "partial_plan"
  /\ LET groups == Val(range_groups)
     IN IF groups.start = None \/ groups.end = None
          \* int(None)
          THEN /\ outcome' = Raised("TypeError", "int of None", None)
               /\ pc' = "done"
               /\ UNCHANGED <<gen, result>>
          ELSE LET g == [start |-> ToInt(Val(groups.start)), end |-> ToInt(Val(groups.end))]
               IN IF GenYields(g, total_size)
                    THEN /\ gen' = Some(SkipFirst(g, total_size))
                         /\ pc' = "partial_loop"
                         /\ UNCHANGED <<outcome, result>>
                  \* StopIteration
                  ELSE IF total_size # None
                    THEN /\ outcome' = Returned
                         /\ result' = Some(<<resource_index, resource, to_path>>)
                         /\ pc' = "done"
                         /\ gen' = gen
                  ELSE /\ outcome' = Raised("ValueError", "range iteration", None)
                       /\ pc' = "done"
                       /\ UNCHANGED <<gen, result>>
  /\ UNCHANGED <<otherVars, rangeVars, contentVars, file0, resource, resHeaders, resource_index, to_path, chunk_size, update_hook,
                 file, srvSize, response, next_response, requests, calls, allocs,
                 hookCalls, events, range_groups, total_size>>

\* _download_partial: the statuses that end a chase of unknown length
RangeEndStatuses_With404 == {404, 416}
RangeEndStatuses == {416}

\* _download_partial: one turn of the for loop up to the check of next_response.ok
PartialRequest ==
  /\ pc = "partial_loop"
  /\ GenYields(Val(gen), total_size)
  /\ total_size = None => Len(requests) <= MaxFollow
  /\ LET g == Val(gen)
         range_header == RangeHeader(Val(Val(range_groups).unit), g.start, g.end)
     IN \* next_resource = resource.copy() shares the headers dict with resource
        /\ resHeaders' = Some(range_header)
        /\ gen' = Some(GenAdvance(g, total_size, None))
        /\ \E r \in FollowUpResponses(g.start, g.end, srvSize) :
             /\ next_response' = r
             /\ requests' = Append(requests, Sent("_download_partial", Some(<<g.start, g.end>>), r))
             /\ IF Ok(r)
                  THEN pc' = "partial_append" /\ UNCHANGED <<outcome, result>>
                ELSE IF total_size = None /\ r.status \in RangeEndStatuses
                  THEN /\ outcome' = Returned
                       /\ result' = Some(<<resource_index, resource, to_path>>)
                       /\ pc' = "done"
                ELSE /\ outcome' = Raised("ValueError", "error status", Some(r.status))
                     /\ pc' = "done"
                     /\ result' = result
  /\ UNCHANGED <<otherVars, rangeVars, contentVars, file0, resource, resource_index, to_path, chunk_size, update_hook, file,
                 srvSize, response, calls, allocs, hookCalls, events, range_groups, total_size>>

\* _download_partial: open("ab") and stream the body of next_response
PartialAppend ==
  /\ pc = "partial_append"
  /\ file' = OpenAppendAll(file, next_response.body, chunk_size)
  /\ hookCalls' = Hooked(next_response.body)
  /\ events' = events \o LoopEvents(IterContent(next_response.body, chunk_size), update_hook)
  /\ pc' = "partial_loop"
  /\ UNCHANGED <<otherVars, rangeVars, contentVars, file0, resource, resHeaders, resource_index, to_path, chunk_size, update_hook,
                 srvSize, response, next_response, requests, calls, allocs,
                 range_groups, total_size, gen, outcome, result>>

\* _download_partial: range_iterator is exhausted, return to_path
PartialReturn ==
  /\ pc = "partial_loop"
  /\ ~GenYields(Val(gen), total_size)
  /\ outcome' = Returned
  /\ result' = Some(<<resource_index, resource, to_path>>)
  /\ pc' = "done"
  /\ UNCHANGED <<otherVars, rangeVars, contentVars, file0, resource, resHeaders, resource_index, to_path, chunk_size, update_hook,
                 file, srvSize, response, next_response, requests, calls, allocs,
                 hookCalls, events, range_groups, total_size, gen>>

Next ==
  \/ RequestResource \/ Dispatch \/ NormalAllocate \/ NormalWrite
  \/ PartialParse \/ PartialAllocate \/ PartialFirst \/ PartialPlan
  \/ PartialRequest \/ PartialAppend \/ PartialReturn

Spec == Init /\ [][Next]_vars

\* --------------------------------------------------- claims about one fetch
Finished == pc = "done"
FollowUps == {k \in 1..Len(requests) : requests[k].by = "_download_partial"}
\* the answer of a server that holds srvSize bytes and follows RFC 7233
HonestAnswer(s, e) ==
  IF s >= srvSize THEN [status |-> 416, length |-> None, range |-> None, body |-> ErrorBody]
  ELSE [status |-> 206, length |-> None, range |-> None, body |-> Slice(s, Min(e, srvSize - 1))]
\* the answer that holds exactly the bytes asked for
ExactAnswer(s, e) == [status |-> 206, length |-> None, range |-> None, body |-> Slice(s, e)]

\* the first response is 206 "b 0-e/N" with the first e + 1 of the server's N bytes
\* and nothing is in the way at to_path
C2Applies ==
  /\ response.status = 206 /\ ~file0.exists /\ response.length = None
  /\ \E e \in 0..MaxRangeEnd :
       /\ e < srvSize
       /\ response.range = Some(FormatContentRange(0, e, Some(srvSize)))
  /\ \A k \in FollowUps :
       LET a == Val(requests[k].asked)
       IN requests[k].answer \in {HonestAnswer(a[1], a[2]), ExactAnswer(a[1], a[2])}

\* C2: a partial fetch whose follow-ups are answered by the bytes they ask for
\* returns to_path, leaves the N bytes of the resource in request order in the
\* file, and pre-allocated storage exactly once, with size N.
C2_PartialReassembly ==
  (Finished /\ C2Applies) =>
    /\ outcome.kind = "ok" /\ result = Some(<<resource_index, resource, to_path>>)
    /\ file.data = Slice(0, srvSize - 1)
    /\ allocs = <<srvSize>>

HasStaleByte(f) == \E i \in 1..Len(f.data) : f.data[i] = 9

\* C3: with a stale file at to_path a fetch that reaches a handler does not fail
\* on the existing file and leaves none of the stale bytes, whether or not the
\* response declares a size.
C3_IdempotentRestart ==
  (Finished /\ file0.exists /\ calls # <<>>) =>
    /\ outcome.exc # "FileExistsError"
    /\ outcome.kind = "ok" => ~HasStaleByte(file)

CallsBy(by) == {k \in 1..Len(calls) : calls[k].by = by}
CallsOf(handler) == {k \in 1..Len(calls) : calls[k].handler = handler}
TheCall(handler, by) ==
  [handler |-> handler, by |-> by, resource |-> resource, response |-> response,
   to_path |-> to_path, chunk_size |-> chunk_size, update_hook |-> update_hook]

\* C5: download_resource sends exactly one request of its own; on 200 it calls the
\* Normal handler once and never the Partial handler, on 206 the Partial handler
\* once and never the Normal handler itself; the handler gets resource, response,
\* to_path, chunk_size and update_hook, and a successful call returns
\* (resource_index, resource, path).
C5_DispatchOnStatus ==
  /\ pc # "start" =>
       /\ Cardinality({k \in 1..Len(requests) : requests[k].by = "download_resource"}) = 1
       /\ requests[1].by = "download_resource" /\ requests[1].answer = response
       /\ requests[1].resource = resource
  /\ (pc \notin {"start", "resolved"} /\ response.status = 200) =>
       calls = <<TheCall("normal", "download_resource")>>
  /\ (pc \notin {"start", "resolved"} /\ response.status = 206) =>
       /\ calls[1] = TheCall("partial", "download_resource")
       /\ CallsBy("download_resource") = {1} /\ CallsOf("partial") = {1}
  /\ (Finished /\ outcome.kind = "ok") =>
       result = Some(<<resource_index, resource, to_path>>)
  /\ (Finished /\ outcome.kind # "ok") => result = None

C5_Witness ==
  /\ Finished /\ response.status = 206 /\ outcome.kind = "ok"
  /\ Len(calls) = 1 /\ Len(requests) >= 2 /\ resource_index = MaxIndex

\* C6: a first response with a status other than 200 and 206 makes
\* download_resource raise an error that names the status (204: no content),
\* call no handler and leave to_path as it was.
C6_OtherStatusFails ==
  (pc \notin {"start", "resolved"} /\ response.status \notin {200, 206}) =>
    /\ Finished /\ outcome.kind = "error" /\ outcome.exc = "ValueError"
    /\ IF response.status = 204 THEN outcome.why = "no content"
       ELSE outcome.status = Some(response.status)
    /\ calls = <<>> /\ allocs = <<>> /\ file = file0 /\ hookCalls = <<>>
    /\ Len(requests) = 1

C6_Witness ==
  /\ Finished /\ response.status = 201 /\ file0.exists /\ response.length # None
  /\ outcome.why = "unhandled status"

\* what _download_normal does with the response: fail in allocate_storage, or
\* leave the body in the file and return to_path
NormalPost ==
  /\ Len(requests) = 1
  /\ IF response.length # None /\ ToInt(Val(response.length)) <= 0
       THEN outcome.kind = "error" /\ outcome.why = "invalid size" /\ file = file0
     ELSE IF response.length # None /\ file0.exists
       THEN outcome.kind = "error" /\ outcome.exc = "FileExistsError" /\ file = file0
     ELSE /\ outcome.kind = "ok" /\ file = [exists |-> TRUE, data |-> response.body]
          /\ result = Some(<<resource_index, resource, to_path>>)
  /\ allocs = IF response.length # None THEN <<ToInt(Val(response.length))>> ELSE <<>>

UnusableRange == response.range = None \/ Val(response.range) \in MalformedRanges

C8_UnsatisfiedRangeFallsBack ==
  (Finished /\ response.status = 206 /\ response.range # None
     /\ Val(response.range) = UnsatisfiedRange
     /\ ~file0.exists /\ response.length = None) =>
    /\ calls = <<TheCall("partial", "download_resource"),
                 TheCall("normal", "_download_partial")>>
    /\ NormalPost

\* the bodies of the follow-up answers that were ok, one after the other
RECURSIVE OkBodies(_)
OkBodies(reqs) ==
  IF reqs = <<>> THEN <<>>
  ELSE (IF Head(reqs).by = "_download_partial" /\ Ok(Head(reqs).answer)
          THEN Head(reqs).answer.body ELSE <<>>) \o OkBodies(Tail(reqs))
LastRequest == requests[Len(requests)]
\* the fetch ended on a follow-up request whose answer was not ok
FailedFollowUp ==
  /\ Finished /\ requests # <<>>
  /\ LastRequest.by = "_download_partial" /\ ~Ok(LastRequest.answer)

\* C11: when a follow-up range request is answered with an error status, the
\* fetch returns to_path if the total size is unknown and the status is 416, and
\* fails with an error carrying that status otherwise; either way the file holds
\* the first body followed by the bodies of the ok follow-ups and nothing of the
\* failed answer.
C11_FailedFollowUp ==
  FailedFollowUp =>
    /\ file.data = response.body \o OkBodies(requests)
    /\ IF total_size = None /\ LastRequest.answer.status = 416
         THEN /\ outcome = Returned
              /\ result = Some(<<resource_index, resource, to_path>>)
         ELSE /\ outcome = Raised("ValueError", "error status", Some(LastRequest.answer.status))
              /\ result = None

C11_Witness ==
  /\ FailedFollowUp /\ total_size = None /\ LastRequest.answer.status = 416
  /\ OkBodies(requests) # <<>> /\ outcome = Returned
  /\ file.data = Slice(0, srvSize - 1)

\* the (start, end) of the Content-Range header leave the planner nothing to
\* yield: start > end, or the size is known and end is beyond it
HeaderExhausted ==
  /\ range_groups # None
  /\ Val(range_groups).start # None /\ Val(range_groups).end # None
  /\ LET s == ToInt(Val(Val(range_groups).start))
         e == ToInt(Val(Val(range_groups).end))
     IN s > e \/ (total_size # None /\ e > Val(total_size))

\* C12: once the first 206 body is written, a planner that yields nothing on its
\* first advance ends the fetch at that step: with the size known it returns
\* to_path and no follow-up request is sent, with the size unknown it fails with
\* the range-iteration error.
C12_ExhaustedFirstAdvance ==
  [][(pc = "partial_plan" /\ HeaderExhausted) =>
       /\ pc' = "done" /\ requests' = requests /\ file' = file
       /\ file.data = response.body
       /\ IF total_size # None
            THEN /\ outcome' = Returned
                 /\ result' = Some(<<resource_index, resource, to_path>>)
            ELSE /\ outcome' = Raised("ValueError", "range iteration", None)
                 /\ result' = None]_vars

C12_Witness ==
  /\ Finished /\ HeaderExhausted /\ total_size = None
  /\ response.range = Some(FormatContentRange(1, 0, None))
  /\ outcome = Raised("ValueError", "range iteration", None)
  /\ file.data = response.body /\ FollowUps = {}

\* C13: a 200 response leaves exactly its body at to_path and returns to_path,
\* for every chunk size and with or without a Content-Length header, whatever
\* the header declares; stated for a path where nothing is in the way.
C13_NormalRoundTrip ==
  (Finished /\ response.status = 200 /\ ~file0.exists) =>
    /\ outcome = Returned
    /\ file = [exists |-> TRUE, data |-> response.body]
    /\ result = Some(<<resource_index, resource, to_path>>)

\* C22: the fetch never mutates its resource: when download_resource has ended,
\* with or without success, the headers of the resource are what they were at
\* the call (no Range header added or overwritten), the follow-up requests
\* having carried theirs on a copy.
C22_ResourceNotMutated ==
  Finished => resHeaders = InitialHeaders(resource)

\* the (start, end) the k-th request of the fetch follows on: the range of the
\* Content-Range header for the first follow-up, the range asked before otherwise
RangeBefore(k) ==
  IF k = 2
    THEN <<ToInt(Val(Val(range_groups).start)), ToInt(Val(Val(range_groups).end))>>
  ELSE Val(requests[k - 1].asked)

\* C25: the follow-up requests of one resource go out one after the other, each
\* only when the body of the response before it is in the file, each with the
\* header Range: unit=start-end whose start is the end of the range before plus
\* one, the range of the first response never being asked for again.
C25_SequentialChase ==
  /\ pc = "partial_loop" => file.data = response.body \o OkBodies(requests)
  /\ pc = "partial_append" =>
       file.data = response.body \o OkBodies(SubSeq(requests, 1, Len(requests) - 1))
  /\ \A k \in 2..Len(requests) :
       /\ requests[k].by = "_download_partial" /\ requests[k].asked # None
       /\ Ok(requests[k - 1].answer)
       /\ Val(requests[k].asked)[1] = RangeBefore(k)[2] + 1
       /\ Val(requests[k].asked)[1] <= Val(requests[k].asked)[2]
       /\ requests[k].range =
            Some(Val(Val(range_groups).unit) \o <<"=">> \o Str(Val(requests[k].asked)[1])
                   \o <<"-">> \o Str(Val(requests[k].asked)[2]))
       /\ Val(requests[k].asked) # RangeBefore(2)

C25_Witness ==
  /\ Finished /\ Len(requests) = 3 /\ outcome = Returned
  /\ requests[2].asked = Some(<<1, 1>>) /\ requests[3].asked = Some(<<2, 2>>)
  /\ file.data = <<1, 2>>

RECURSIVE SumOf(_)
SumOf(q) == IF q = <<>> THEN 0 ELSE Head(q) + SumOf(Tail(q))
\* the byte counts of the events of one kind, in order
RECURSIVE CountsOf(_, _)
CountsOf(evs, op) ==
  IF evs = <<>> THEN <<>>
  ELSE (IF Head(evs).op = op THEN <<Head(evs).n>> ELSE <<>>) \o CountsOf(Tail(evs), op)

\* C26: a given update hook is called once after every chunk written, never
\* before the write, with the byte count of that chunk, on the Normal path, for
\* the first Partial body and for the follow-up bodies; on a successful fetch the
\* counts reported add up to the length of the file. Without a hook there is no
\* call and the same bytes are written.
C26_ProgressReporting ==
  /\ \A i \in 1..Len(events) :
       events[i].op = "hook" =>
         i > 1 /\ events[i - 1] = [op |-> "write", n |-> events[i].n]
  /\ update_hook =>
       \A i \in 1..Len(events) :
         events[i].op = "write" =>
           i < Len(events) /\ events[i + 1] = [op |-> "hook", n |-> events[i].n]
  /\ hookCalls = CountsOf(events, "hook")
  /\ ~update_hook => hookCalls = <<>>
  /\ \A i \in 1..Len(events) : events[i].n >= 1 /\ events[i].n <= chunk_size
  /\ (Finished /\ outcome = Returned) =>
       /\ SumOf(CountsOf(events, "write")) = Len(file.data)
       /\ update_hook => SumOf(hookCalls) = Len(file.data)

C26_Witness ==
  /\ Finished /\ outcome = Returned /\ update_hook /\ chunk_size = 1
  /\ response.status = 206 /\ Len(response.body) = 2 /\ Len(requests) >= 3
  /\ hookCalls = <<1, 1, 1, 1>> /\ Len(file.data) = 4

\* the chase of a partial fetch with unknown size has begun: the header gave
\* start <= end and no size
OpenEndedChase ==
  /\ range_groups # None /\ total_size = None
  /\ Val(range_groups).start # None /\ Val(range_groups).end # None
  /\ ToInt(Val(Val(range_groups).start)) <= ToInt(Val(Val(range_groups).end))
  /\ pc \in {"partial_loop", "partial_append", "done"}

\* C28: with the size unknown and start <= end the planner always has a further
\* range, so the chase goes on while the follow-ups are answered successfully: it
\* ends only at the first follow-up answered with an error status, and it
\* returns to_path only when that status is 416.
C28_OpenEndedChase ==
  OpenEndedChase =>
    /\ pc = "partial_loop" => GenYields(Val(gen), total_size)
    /\ \A k \in 2..(Len(requests) - 1) : requests[k].answer.status < 400
    /\ Finished =>
         /\ Len(requests) >= 2
         /\ requests[Len(requests)].by = "_download_partial"
         /\ requests[Len(requests)].answer.status >= 400
         /\ outcome = Returned <=> requests[Len(requests)].answer.status = 416

C28_Witness ==
  /\ OpenEndedChase /\ Finished /\ Len(requests) = MaxFollow + 1
  /\ requests[Len(requests)].answer.status = 416 /\ outcome = Returned

\* ------------------------------------------------------------- SpecContent
N == Len(content.resources)
IsDone(i) == futures[i] \in {"ok", "failed"}
Running == {i \in 1..N : futures[i] = "running"}
SeqSet(q) == {q[k] : k \in 1..Len(q)}

\* what future.result() gives for the future of resource i: the tuple
\* download_resource returned, or the exception it raised
FutureResult(i) ==
  <<i - 1, content.resources[i], StagingPath(content.id, content.resources[i])>>
FutureError(i) == [exc |-> "ValueError", resource_index |-> i - 1]

Contents ==
  {[id |-> "c", resources |-> rs] :
     rs \in UNION {[1..n -> Resources] : n \in 1..MaxResources}}

InitContent ==
  /\ RangesIdle /\ FetchIdle /\ OtherIdle
  /\ oc = "submit"
  /\ content \in Contents
  /\ max_connections \in 1..MaxConnections
  /\ futures = [i \in 1..Len(content.resources) |-> "none"]
  /\ completed = <<>> /\ doneAtWait = {} /\ yielded = <<>>
  /\ results = <<>> /\ raising = None /\ pendingAtRaise = {}
  /\ manifest = None /\ raisedErr = None

\* one turn of the enumerate loop: executor.submit(self.download_resource, ...)
Submit ==
  /\ oc = "submit"
  /\ \E i \in 1..N :
       /\ futures[i] = "none" /\ \A j \in 1..(i - 1) : futures[j] # "none"
       /\ futures' = [futures EXCEPT ![i] = "queued"]
  /\ UNCHANGED <<otherVars, rangeVars, fetchVars, oc, content, max_connections, completed, doneAtWait, yielded,
                 results, raising, pendingAtRaise, manifest, raisedErr>>

\* the enumerate loop is over: as_completed(request_futures) takes the futures
\* that have already finished aside
BeginWait ==
  /\ oc = "submit"
  /\ \A i \in 1..N : futures[i] # "none"
  /\ doneAtWait' = {i \in 1..N : IsDone(i)}
  /\ oc' = "collect"
  /\ UNCHANGED <<otherVars, rangeVars, fetchVars, content, max_connections, futures, completed, yielded,
                 results, raising, pendingAtRaise, manifest, raisedErr>>

PoolHasIdleWorker_Unbounded == TRUE
\* ThreadPoolExecutor(max_workers=max_connections): a queued call starts only
\* while fewer than max_workers calls run
PoolHasIdleWorker == Cardinality(Running) < max_connections

\* a worker of the pool takes the oldest queued call; at most max_connections run
TaskStart(i) ==
  /\ futures[i] = "queued"
  /\ \A j \in 1..(i - 1) : futures[j] # "queued"
  /\ PoolHasIdleWorker
  /\ futures' = [futures EXCEPT ![i] = "running"]
  /\ UNCHANGED <<otherVars, rangeVars, fetchVars, oc, content, max_connections, completed, doneAtWait, yielded,
                 results, raising, pendingAtRaise, manifest, raisedErr>>

\* download_resource returns or raises in its worker
TaskFinish(i) ==
  /\ futures[i] = "running"
  /\ \E how \in {"ok", "failed"} : futures' = [futures EXCEPT ![i] = how]
  /\ completed' = Append(completed, i)
  /\ UNCHANGED <<otherVars, rangeVars, fetchVars, oc, content, max_connections, doneAtWait, yielded,
                 results, raising, pendingAtRaise, manifest, raisedErr>>

AsCompletedNext_AnyOrder == {i \in 1..N : IsDone(i) /\ i \notin SeqSet(yielded)}

\* the futures as_completed may yield next: first those that had finished when it
\* was called, in the order of a set, then the others in the order they finish
AsCompletedNext ==
  IF doneAtWait \ SeqSet(yielded) # {} THEN doneAtWait \ SeqSet(yielded)
  ELSE {i \in SeqSet(completed) \ SeqSet(yielded) :
          \A k, l \in 1..Len(completed) :
            (completed[l] = i /\ k < l) => completed[k] \in SeqSet(yielded)}

\* one turn of the as_completed loop: results.append(future.result()), which
\* raises the exception of a failed future
Collect ==
  /\ oc = "collect"
  /\ \E i \in AsCompletedNext :
       /\ yielded' = Append(yielded, i)
       /\ IF futures[i] = "failed"
            THEN /\ raising' = Some(FutureError(i))
                 /\ pendingAtRaise' = {j \in 1..N : ~IsDone(j)}
                 /\ oc' = "exit"
                 /\ results' = results
            ELSE /\ results' = Append(results, FutureResult(i))
                 /\ oc' = IF Len(yielded) + 1 = N THEN "exit" ELSE "collect"
                 /\ UNCHANGED <<raising, pendingAtRaise>>
  /\ UNCHANGED <<otherVars, rangeVars, fetchVars, content, max_connections, futures, completed, doneAtWait,
                 manifest, raisedErr>>

ExecutorExitReady_NoWait == TRUE
\* ThreadPoolExecutor.__exit__ is shutdown(wait=True): it returns once every
\* submitted call has run
ExecutorExitReady == \A i \in 1..N : IsDone(i)

\* the artifacts of the Manifest
Artifacts(rs) == [k \in 1..Len(rs) |-> <<SortedByIndex(rs)[k][2], SortedByIndex(rs)[k][3]>>]

\* the with block is left: the exception goes on to the caller, or the Manifest
\* is built and returned
Exit ==
  /\ oc = "exit"
  /\ ExecutorExitReady
  /\ IF raising # None
       THEN /\ raisedErr' = raising /\ oc' = "raised" /\ manifest' = manifest
       ELSE /\ manifest' = Some([content |-> content, artifacts |-> Artifacts(results)])
            /\ oc' = "returned" /\ raisedErr' = raisedErr
  /\ UNCHANGED <<otherVars, rangeVars, fetchVars, content, max_connections, futures, completed, doneAtWait, yielded,
                 results, raising, pendingAtRaise>>

NextContent ==
  \/ Submit \/ BeginWait \/ Collect \/ Exit
  \/ \E i \in 1..N : TaskStart(i)
  \/ \E i \in 1..N : TaskFinish(i)

SpecContent == InitContent /\ [][NextContent]_vars

\* ------------------------------------------------ claims about download_content
\* C1: whatever the order in which the fetch tasks complete, a returned manifest
\* has one artifact per resource and artifacts[i] is the (resource, local path)
\* pair of content.resources[i].
C1_ManifestOrder ==
  oc = "returned" =>
    /\ manifest # None
    /\ Val(manifest).content = content
    /\ Len(Val(manifest).artifacts) = N
    /\ \A i \in 1..N :
         Val(manifest).artifacts[i] =
           <<content.resources[i], StagingPath(content.id, content.resources[i])>>

\* resources [A, B, A] completing in the order 3, 1, 2
C1_Witness ==
  /\ oc = "returned" /\ content.resources = <<"A", "B", "A">>
  /\ completed = <<3, 1, 2>> /\ yielded = <<3, 1, 2>>

Failed == {i \in 1..N : futures[i] = "failed"}
\* the first future to fail, in completion order
FirstFailed == completed[CHOOSE k \in 1..Len(completed) :
                           /\ completed[k] \in Failed
                           /\ \A l \in 1..(k - 1) : completed[l] \notin Failed]

\* C9 as stated: when a fetch task fails download_content returns no manifest and
\* raises the failure of the first task that failed, in completion order.
C9_FirstFailureInCompletionOrder ==
  /\ (oc \in {"returned", "raised"} /\ Failed # {}) => (oc = "raised" /\ manifest = None)
  /\ oc = "raised" => raisedErr = Some(FutureError(FirstFailed))

\* C9 amended: when a fetch task fails download_content returns no manifest and
\* raises the failure of the first failed future the as_completed loop yields;
\* every future yielded before it succeeded, and it is the first task that failed
\* in completion order unless both had already finished when the loop began.
C9_FirstObservedFailure ==
  /\ (oc \in {"returned", "raised"} /\ Failed # {}) => (oc = "raised" /\ manifest = None)
  /\ oc = "raised" =>
       LET f == yielded[Len(yielded)]
       IN /\ raisedErr = Some(FutureError(f)) /\ f \in Failed
          /\ \A k \in 1..(Len(yielded) - 1) : yielded[k] \notin Failed
          /\ Len(results) = Len(yielded) - 1
          /\ f = FirstFailed \/ {f, FirstFailed} \subseteq doneAtWait

\* two tasks failed before the loop began and the later one is raised
C9_Witness ==
  /\ oc = "raised" /\ Cardinality(Failed) >= 2
  /\ raisedErr # Some(FutureError(FirstFailed))
  /\ Len(yielded) >= 2

\* C10: download_content returns or raises only after every submitted fetch task
\* has finished, also when a task failed while others were running or queued.
C10_WaitsForAllTasks ==
  oc \in {"returned", "raised"} => \A i \in 1..N : IsDone(i)

\* the failure was observed while one task was running and another still queued
C10_Witness ==
  /\ oc = "raised" /\ Cardinality(pendingAtRaise) >= 2
  /\ \E i \in pendingAtRaise : futures[i] = "ok"

\* the path of the fetch task of resource i
TaskPath(i) == StagingPath(content.id, content.resources[i])
\* the fingerprints of the resources are pairwise distinct
DistinctFingerprints ==
  \A i, j \in 1..N : i # j => content.resources[i] # content.resources[j]

\* C23: when the fingerprints of the resources are pairwise distinct every fetch
\* task has a staging path of its own, so no two tasks that run at the same time
\* allocate or write the same path.
C23_OwnStagingPath ==
  DistinctFingerprints =>
    /\ \A i, j \in 1..N : i # j => TaskPath(i) # TaskPath(j)
    /\ \A i, j \in Running : i # j => TaskPath(i) # TaskPath(j)

C23_Witness ==
  /\ DistinctFingerprints /\ Running = {1, 2}
  /\ TaskPath(1) = <<"staging", "c", "A">> /\ TaskPath(2) = <<"staging", "c", "B">>

\* the futures submitted so far
Submitted == {i \in 1..N : futures[i] # "none"}

\* C24: download_content submits one fetch task per resource, none twice, and
\* at no time do more than max_connections of them run, however many resources
\* there are.
C24_BoundedPool ==
  /\ Cardinality(Running) <= max_connections
  /\ oc # "submit" => Submitted = 1..N
  /\ Len(futures) = Len(content.resources)
  /\ \A k, l \in 1..Len(completed) : k # l => completed[k] # completed[l]
  /\ SeqSet(completed) = {i \in 1..N : IsDone(i)}

C24_Witness ==
  /\ N > max_connections /\ Cardinality(Running) = max_connections
  /\ \E i \in 1..N : futures[i] = "queued"
  /\ max_connections = 2

\* ------------------------------------------------------------ SpecAllocate
AllocSizes == (0 - MaxBelow)..MaxAllocSize

InitAllocate ==
  /\ RangesIdle /\ FetchIdle /\ ContentIdle /\ DispatchIdle /\ FingerIdle /\ ServiceIdle
  /\ apc = "call" /\ aCalls = 1
  /\ aPath \in FilePaths /\ aSize \in AllocSizes
  /\ fs \in Trees /\ fsBefore = fs
  /\ aOutcome = NoOutcome /\ aResult = None

\* allocate_storage(to_path, size), from the size check to the return
AllocateStorageCall ==
  /\ apc = "call"
  /\ LET a == AllocateStorage(FileAt(fs, aPath), aSize)
     IN IF a.raised # None
          THEN /\ aOutcome' = Val(a.raised)
               /\ aResult' = None
               /\ fs' = fs
          ELSE /\ fs' = [dirs |-> MkdirParents(fs, aPath),
                         files |-> [fs.files EXCEPT ![aPath] = Some(a.file.data)]]
               /\ aOutcome' = Returned
               /\ aResult' = Some(aPath)
  /\ apc' = "done"
  /\ UNCHANGED <<aPath, aSize, fsBefore, aCalls, rangeVars, fetchVars, contentVars, dispatchVars, fingerVars, serviceVars>>

\* the handlers call allocate_storage again, for the next resource, on the tree
\* the calls before left
AllocateAgain ==
  /\ apc = "done" /\ aCalls < MaxCalls
  /\ aPath' \in FilePaths /\ aSize' \in AllocSizes
  /\ fsBefore' = fs /\ aCalls' = aCalls + 1
  /\ apc' = "call" /\ aOutcome' = NoOutcome /\ aResult' = None
  /\ UNCHANGED <<fs, rangeVars, fetchVars, contentVars, dispatchVars, fingerVars, serviceVars>>

NextAllocate == AllocateStorageCall \/ AllocateAgain

SpecAllocate == InitAllocate /\ [][NextAllocate]_vars

Allocated == apc = "done"

\* C14: allocate_storage(path, size) with size > 0 and nothing at path creates
\* the missing parent directories, leaves a file of exactly size bytes at path,
\* touches nothing else and returns path.
C14_AllocatesExactSize ==
  (Allocated /\ aSize > 0 /\ ~FileAt(fsBefore, aPath).exists) =>
    /\ aOutcome = Returned /\ aResult = Some(aPath)
    /\ fs.dirs = fsBefore.dirs \cup Ancestors(aPath)
    /\ fs.files[aPath] # None /\ Len(Val(fs.files[aPath])) = aSize
    /\ \A p \in FilePaths \ {aPath} : fs.files[p] = fsBefore.files[p]

C14_Witness ==
  /\ Allocated /\ aSize = 2 /\ aPath = <<"a", "b", "f">> /\ fsBefore.dirs = {}
  /\ fs.dirs = DirPaths /\ fs.files[aPath] = Some(<<0, 0>>) /\ aResult = Some(aPath)

\* C15: allocate_storage(path, size) with size > 0 on a path that exists raises
\* FileExistsError and leaves the file there, and the rest of the tree, as it was.
C15_ExistingPathFails ==
  (Allocated /\ aSize > 0 /\ FileAt(fsBefore, aPath).exists) =>
    /\ aOutcome = Raised("FileExistsError", "already exists", None)
    /\ aResult = None
    /\ fs = fsBefore

C15_Witness ==
  /\ Allocated /\ aSize = 2 /\ fsBefore.files[aPath] = Some(StaleFile.data)
  /\ aOutcome.exc = "FileExistsError" /\ fs.files[aPath] = Some(StaleFile.data)

\* C16: allocate_storage(path, size) with size <= 0 raises ValueError for every
\* path, existing or not, and creates neither the file nor a parent directory.
C16_InvalidSizeFails ==
  (Allocated /\ aSize <= 0) =>
    /\ aOutcome = Raised("ValueError", "invalid size", None)
    /\ aResult = None
    /\ fs = fsBefore

C16_Witness ==
  /\ Allocated /\ aSize = 0 /\ aPath = <<"a", "f">> /\ fsBefore.dirs = {}
  /\ aOutcome.exc = "ValueError" /\ fs = fsBefore

\* ------------------------------------------------------------ SpecDispatch
\* a resource is an HttpResource or an object of another kind
ResourceKinds == {"http", "other"}
\* HttpDownloader and two more subclasses of BaseDownloader, one whose can_handle
\* takes every content and one whose can_handle takes none
DownloaderClasses == {"HttpDownloader", "AcceptAll", "AcceptNone"}
GetDownloaders == {"services", "download", "megu"}

CanHandle_Any(d, rs) == d # "AcceptNone"
\* downloader.can_handle(content); for HttpDownloader
\* all(isinstance(resource, HttpResource) for resource in content.resources)
CanHandle(d, rs) ==
  IF d = "HttpDownloader" THEN \A i \in 1..Len(rs) : rs[i] = "http"
  ELSE d = "AcceptAll"

\* iter_downloaders(): the registered downloader classes, in order; none when
\* nothing is registered
IterDownloaders == UNION {[1..n -> DownloaderClasses] : n \in 0..MaxRegistry}

\* what the function iterates: discover_downloaders() and AVAILABLE_DOWNLOADERS hold
\* HttpDownloader alone, iter_downloaders() yields what is registered
Registries(fn) == IF fn = "megu" THEN IterDownloaders ELSE {<<"HttpDownloader">>}

\* `return downloader()` in megu.services and megu, `return downloader` in
\* megu.download
Found(fn, d) ==
  [kind |-> IF fn = "download" THEN "class" ELSE "instance", downloader |-> d, via |-> "match"]

FallThrough_AlwaysFallback(fn) ==
  [kind |-> IF fn = "download" THEN "class" ELSE "instance",
   downloader |-> "HttpDownloader", via |-> "fallback"]
\* the statement after the loop: the fall back to HttpDownloader, or in megu the
\* raise of ValueError
FallThrough(fn) ==
  IF fn = "megu" THEN [kind |-> "error", downloader |-> "", via |-> "ValueError"]
  ELSE [kind |-> IF fn = "download" THEN "class" ELSE "instance",
        downloader |-> "HttpDownloader", via |-> "fallback"]

InitDispatch ==
  /\ RangesIdle /\ FetchIdle /\ ContentIdle /\ AllocIdle /\ FingerIdle /\ ServiceIdle
  /\ dpc = "loop" /\ dFn \in GetDownloaders
  /\ dContent \in UNION {[1..n -> ResourceKinds] : n \in 0..MaxKinds}
  /\ dRegistry \in Registries(dFn)
  /\ dPos = 1 /\ dChecked = <<>>
  /\ dOutcome = [kind |-> "none", downloader |-> "", via |-> ""]

\* one turn of `for downloader in ...`: can_handle, then continue or return
DispatchTest ==
  /\ dpc = "loop" /\ dPos <= Len(dRegistry)
  /\ LET d == dRegistry[dPos]
         handled == CanHandle(d, dContent)
     IN /\ dChecked' = Append(dChecked, [downloader |-> d, handled |-> handled])
        /\ IF handled
             THEN dOutcome' = Found(dFn, d) /\ dpc' = "done" /\ dPos' = dPos
             ELSE dPos' = dPos + 1 /\ UNCHANGED <<dOutcome, dpc>>
  /\ UNCHANGED <<dFn, dContent, dRegistry, rangeVars, fetchVars, contentVars, allocVars, fingerVars, serviceVars>>

\* the loop ran out of downloaders
DispatchFallThrough ==
  /\ dpc = "loop" /\ dPos > Len(dRegistry)
  /\ dOutcome' = FallThrough(dFn)
  /\ dpc' = "done"
  /\ UNCHANGED <<dFn, dContent, dRegistry, dPos, dChecked, rangeVars, fetchVars,
                 contentVars, allocVars, fingerVars, serviceVars>>

NextDispatch == DispatchTest \/ DispatchFallThrough

SpecDispatch == InitDispatch /\ [][NextDispatch]_vars

Dispatched == dpc = "done"
AllHttp == \A i \in 1..Len(dContent) : dContent[i] = "http"
\* can_handle was called on the downloaders of the registry in order, and on
\* none after one that took the content
CheckedInOrder ==
  /\ Len(dChecked) <= Len(dRegistry)
  /\ \A k \in 1..Len(dChecked) : dChecked[k].downloader = dRegistry[k]
  /\ \A k \in 1..(Len(dChecked) - 1) : ~dChecked[k].handled
FoundOne == dChecked # <<>> /\ dChecked[Len(dChecked)].handled

\* C18: get_downloader of megu.services and megu.download goes through the fixed
\* registry in order and returns the first downloader whose can_handle took the
\* content; when none did it does not fail and returns the HTTP downloader.
\* can_handle of the HTTP downloader is true exactly when every resource is an
\* HTTP resource, and no request is sent.
C18_FallbackToHttp ==
  (Dispatched /\ dFn \in {"services", "download"}) =>
    /\ CheckedInOrder
    /\ \A k \in 1..Len(dChecked) :
         dChecked[k].downloader = "HttpDownloader" => (dChecked[k].handled <=> AllHttp)
    /\ dOutcome.kind # "error"
    /\ IF FoundOne
         THEN dOutcome.downloader = dChecked[Len(dChecked)].downloader /\ dOutcome.via = "match"
         ELSE /\ Len(dChecked) = Len(dRegistry)
              /\ dOutcome.downloader = "HttpDownloader" /\ dOutcome.via = "fallback"
    /\ requests = <<>>

C18_Witness ==
  /\ Dispatched /\ dFn = "services" /\ dContent = <<"http", "other">>
  /\ dChecked = <<[downloader |-> "HttpDownloader", handled |-> FALSE]>>
  /\ dOutcome = [kind |-> "instance", downloader |-> "HttpDownloader", via |-> "fallback"]

\* C19: megu.get_downloader returns an instance of the first downloader yielded
\* by iter_downloaders whose can_handle took the content, and raises ValueError
\* when none did, an empty registry included.
C19_RaisesWhenUnhandled ==
  (Dispatched /\ dFn = "megu") =>
    /\ CheckedInOrder
    /\ IF FoundOne
         THEN dOutcome = [kind |-> "instance", via |-> "match",
                          downloader |-> dChecked[Len(dChecked)].downloader]
         ELSE /\ Len(dChecked) = Len(dRegistry)
              /\ dOutcome = [kind |-> "error", downloader |-> "", via |-> "ValueError"]

C19_Witness ==
  /\ Dispatched /\ dFn = "megu" /\ dRegistry = <<"AcceptNone", "HttpDownloader">>
  /\ dContent = <<"other">> /\ Len(dChecked) = 2
  /\ dOutcome.kind = "error" /\ dOutcome.via = "ValueError"

\* --------------------------------------------------------- SpecFingerprint
\* text is a tuple of characters; bytes(text, "utf-8") of these characters is
\* the same tuple
Methods == {<<"G", "E", "T">>, <<"P", "O", "S", "T">>}
Urls ==
  {<<"h", "t", "t", "p", ":", "/", "/", "a", "/">>,
   <<"h", "t", "t", "p", ":", "/", "/", "a", "/", "|", "{", "}">>}
\* the headers dict: empty, or {'R': <value>}
HeaderDicts == {None, Some(<<"0", "-", "9">>)}
\* the data field: None, b"", and two bodies
Datas == {None, Some(<<>>), Some(<<"{", "}">>), Some(<<"x">>)}
HttpResources == [method : Methods, url : Urls, headers : HeaderDicts, data : Datas]

\* str(self.headers)
DictStr(h) ==
  IF h = None THEN <<"{", "}">>
  ELSE <<"{", "'", "R", "'", ":", " ", "'">> \o Val(h) \o <<"'", "}">>

\* HttpResource._get_signature
GetSignature(r) ==
  r.method \o <<"|">> \o r.url \o <<"|">> \o DictStr(r.headers)
    \o (IF r.data # None THEN <<"|">> \o Val(r.data) ELSE <<>>)

\* hash_io(BytesIO(signature), {HashType.XXHASH})[HashType.XXHASH]: the digest is
\* decided by the bytes hashed and by nothing else
HashIO(bytes) == <<"xxhash", bytes>>

InitFingerprint ==
  /\ RangesIdle /\ FetchIdle /\ ContentIdle /\ AllocIdle /\ DispatchIdle /\ ServiceIdle
  /\ fRes \in [1..2 -> HttpResources]
  /\ fCache = [i \in 1..2 |-> None]
  /\ fSeen = [i \in 1..2 |-> <<>>]

\* resource.fingerprint: cached_property computes on the first read and keeps
\* the value on the object
ReadFingerprint(i) ==
  /\ fRes # <<>> /\ Len(fSeen[i]) < MaxReads
  /\ LET value == IF fCache[i] # None THEN Val(fCache[i]) ELSE HashIO(GetSignature(fRes[i]))
     IN /\ fCache' = [fCache EXCEPT ![i] = Some(value)]
        /\ fSeen' = [fSeen EXCEPT ![i] = Append(@, value)]
  /\ UNCHANGED <<fRes, rangeVars, fetchVars, contentVars, allocVars, dispatchVars, serviceVars>>

NextFingerprint == \E i \in 1..2 : ReadFingerprint(i)

SpecFingerprint == InitFingerprint /\ [][NextFingerprint]_vars

\* C20: the fingerprint of a resource is the same on every read and for every
\* structurally equal resource, and two resources that differ in method, url,
\* headers or body have different fingerprints.
C20_FingerprintDeterminism ==
  fRes # <<>> =>
    /\ \A i \in 1..2 : \A k \in 1..Len(fSeen[i]) : fSeen[i][k] = fSeen[i][1]
    /\ (fSeen[1] # <<>> /\ fSeen[2] # <<>>) =>
         /\ fRes[1] = fRes[2] => fSeen[1][1] = fSeen[2][1]
         /\ fRes[1] # fRes[2] => fSeen[1][1] # fSeen[2][1]

\* -------------------------------------------------------------- SpecService
\* a content item as megu.download meets it: whether a file is at its to_path,
\* whether get_downloader finds a downloader for it, whether download_content
\* returns a manifest for it or raises
ContentItems == [exists : BOOLEAN, selects : BOOLEAN, fetches : BOOLEAN]

InitService ==
  /\ RangesIdle /\ FetchIdle /\ ContentIdle /\ AllocIdle /\ DispatchIdle /\ FingerIdle
  /\ spc = "loop"
  /\ sItems \in UNION {[1..n -> ContentItems] : n \in 0..MaxItems}
  /\ sExistsOk \in BOOLEAN /\ sOverwrite \in BOOLEAN
  /\ sPos = 1 /\ sYielded = <<>> /\ sRaised = None

\* what becomes of an exception raised in the loop body: `except Exception:
\* continue` when it is raised inside the try block, out of the generator otherwise
AfterRaise(inTry, exc) ==
  IF inTry
    THEN /\ sPos' = sPos + 1 /\ spc' = "loop" /\ UNCHANGED sRaised
    ELSE /\ sRaised' = Some(exc) /\ spc' = "done" /\ UNCHANGED sPos

\* one turn of the for loop up to the end of the try block
ServiceSelect ==
  /\ spc = "loop" /\ sPos <= Len(sItems)
  /\ LET item == sItems[sPos]
     IN IF item.exists /\ ~sExistsOk /\ ~sOverwrite
          THEN sRaised' = Some("FileExistsError") /\ spc' = "done" /\ UNCHANGED sPos
        ELSE IF ~item.selects
          \* get_downloader raised ValueError
          THEN AfterRaise(TRUE, "ValueError")
        ELSE spc' = "fetch" /\ UNCHANGED <<sPos, sRaised>>
  /\ UNCHANGED <<sItems, sExistsOk, sOverwrite, sYielded,
                 rangeVars, fetchVars, contentVars, allocVars, dispatchVars, fingerVars>>

\* yield plugin.write_content(downloader.download_content(content), to_path)
ServiceFetch ==
  /\ spc = "fetch"
  /\ IF sItems[sPos].fetches
       THEN /\ sYielded' = Append(sYielded, sPos)
            /\ sPos' = sPos + 1 /\ spc' = "loop" /\ UNCHANGED sRaised
       \* download_content raised, after the try block
       ELSE AfterRaise(FALSE, "ValueError") /\ UNCHANGED sYielded
  /\ UNCHANGED <<sItems, sExistsOk, sOverwrite,
                 rangeVars, fetchVars, contentVars, allocVars, dispatchVars, fingerVars>>

\* the sieve has no more content
ServiceEnd ==
  /\ spc = "loop" /\ sPos > Len(sItems)
  /\ spc' = "done"
  /\ UNCHANGED <<sItems, sExistsOk, sOverwrite, sPos, sYielded, sRaised,
                 rangeVars, fetchVars, contentVars, allocVars, dispatchVars, fingerVars>>

NextService == ServiceSelect \/ ServiceFetch \/ ServiceEnd

SpecService == InitService /\ [][NextService]_vars

\* the positions of the items that were both selected and fetched, in order
RECURSIVE GoodItems(_, _)
GoodItems(items, k) ==
  IF k > Len(items) THEN <<>>
  ELSE (IF items[k].selects /\ items[k].fetches THEN <<k>> ELSE <<>>) \o GoodItems(items, k + 1)

\* C21: megu.download is best-effort per content item: an item whose downloader
\* selection or whose fetch fails is skipped, nothing is yielded for it and the
\* run goes on with the next item, the failure not leaving the generator; stated
\* for the default exists_ok and overwrite.
C21_BestEffortPerItem ==
  (spc = "done" /\ sExistsOk /\ sOverwrite) =>
    /\ sRaised = None
    /\ sYielded = GoodItems(sItems, 1)

\* ------------------------------------------------------------- SpecRanges
\* the call of test_HTTPDownloader_iter_ranges
TestedArgs == [start |-> 0, end |-> 10, size |-> Some(20), chunk_size |-> Some(5)]
RangeArgs ==
  [start : (0 - MaxBelow)..MaxStart, end : (0 - MaxBelow)..MaxEnd,
   size : {None} \cup {Some(n) : n \in (0 - MaxBelow)..MaxTotal},
   chunk_size : {None, Some(0), Some(1), Some(2), Some(5)}]
  \cup {TestedArgs}

InitRanges ==
  /\ FetchIdle /\ ContentIdle /\ OtherIdle
  /\ rArgs \in RangeArgs
  /\ rGen = [start |-> rArgs.start, end |-> rArgs.end]
  /\ rYielded = <<>>
  /\ rDone = FALSE

\* next(iterator) returns a range
RangeYield ==
  /\ ~rDone
  /\ rArgs.size = None => Len(rYielded) < MaxYield
  /\ GenYields(rGen, rArgs.size)
  /\ rYielded' = Append(rYielded, <<rGen.start, rGen.end>>)
  /\ rGen' = GenAdvance(rGen, rArgs.size, rArgs.chunk_size)
  /\ UNCHANGED <<rArgs, rDone, fetchVars, contentVars, otherVars>>

\* next(iterator) raises StopIteration
RangeStop ==
  /\ ~rDone
  /\ ~GenYields(rGen, rArgs.size)
  /\ rDone' = TRUE
  /\ UNCHANGED <<rArgs, rGen, rYielded, fetchVars, contentVars, otherVars>>

NextRanges == RangeYield \/ RangeStop

SpecRanges == InitRanges /\ [][NextRanges]_vars

\* ------------------------------------------------------------------ C4
CeilDiv(a, b) == (a + b - 1) \div b

C4Applies ==
  /\ rArgs.chunk_size = None /\ rArgs.size # None
  /\ rArgs.start <= rArgs.end /\ rArgs.end <= Val(rArgs.size)

\* C4: for start <= end <= total_size and no chunk_size the planner is finite,
\* its first range starts at start, every range has start <= end, consecutive
\* ranges are contiguous, the last range ends at total_size and there are
\* ceil((total_size - start + 1) / (end - start + 1)) ranges.
C4_RangePlanning ==
  C4Applies =>
    /\ Len(rYielded) <=
         CeilDiv(Val(rArgs.size) - rArgs.start + 1, rArgs.end - rArgs.start + 1)
    /\ \A i \in 1..Len(rYielded) : rYielded[i][1] <= rYielded[i][2]
    /\ \A i \in 1..Len(rYielded) - 1 : rYielded[i + 1][1] = rYielded[i][2] + 1
    /\ Len(rYielded) >= 1 => rYielded[1][1] = rArgs.start
    /\ rDone =>
         /\ Len(rYielded) >= 1
         /\ rYielded[Len(rYielded)][2] = Val(rArgs.size)
         /\ Len(rYielded) =
              CeilDiv(Val(rArgs.size) - rArgs.start + 1, rArgs.end - rArgs.start + 1)

C4_Witness ==
  /\ C4Applies /\ rDone /\ Len(rYielded) = 3
  /\ rYielded[3][2] - rYielded[3][1] < rYielded[1][2] - rYielded[1][1]

\* ----------------------------------------------------------------- C17
\* the arguments leave nothing to yield
ArgsExhausted ==
  \/ rArgs.start > rArgs.end
  \/ rArgs.size # None /\ rArgs.end > Val(rArgs.size)

WidthOf(i) == rYielded[i][2] - rYielded[i][1] + 1
\* the width the planner steps by: chunk_size when one is given (0 counts as not
\* given, as `if chunk_size` has it), the width of the first range otherwise
StepWidth ==
  IF rArgs.chunk_size # None /\ Val(rArgs.chunk_size) # 0 THEN Val(rArgs.chunk_size)
  ELSE rArgs.end - rArgs.start + 1

\* C27: every range after the first starts at the end of the one before plus one
\* and spans chunk_size bytes when chunk_size is given, as many bytes as the first
\* range otherwise; only the last range of a plan with a known size may be
\* shorter, its end being the size.
C27_PlannerStep ==
  \A i \in 2..Len(rYielded) :
    /\ rYielded[i][1] = rYielded[i - 1][2] + 1
    /\ \/ WidthOf(i) = StepWidth
       \/ /\ rArgs.size # None /\ rYielded[i][2] = Val(rArgs.size)
          /\ WidthOf(i) < StepWidth /\ WidthOf(i) >= 1
          /\ i = Len(rYielded)

C27_Witness ==
  /\ rArgs = TestedArgs /\ rDone
  /\ rYielded = <<(<<0, 10>>), (<<11, 15>>), (<<16, 20>>)>>

\* ----------------------------------------------------------------- C29
\* the chase of a partial fetch whose header gave start <= end <= size has begun
KnownSizeChase ==
  /\ range_groups # None /\ total_size # None
  /\ Val(range_groups).start # None /\ Val(range_groups).end # None
  /\ ToInt(Val(Val(range_groups).start)) <= ToInt(Val(Val(range_groups).end))
  /\ ToInt(Val(Val(range_groups).end)) <= Val(total_size)
  /\ pc \in {"partial_loop", "partial_append", "done"}
  /\ outcome.why \notin {"invalid size", "already exists"}

\* the most follow-up requests a chase over a known size sends
MaxFollowUps ==
  CeilDiv(Val(total_size) - ToInt(Val(Val(range_groups).start)) + 1,
          ToInt(Val(Val(range_groups).end)) - ToInt(Val(Val(range_groups).start)) + 1) - 1

\* C29: with a known size N and start <= end <= N the chase ends whatever the
\* server answers: it sends at most ceil((N - start + 1) / (end - start + 1)) - 1
\* follow-ups, asks for no range twice, can always take its next step until it
\* has ended, and ends by returning to_path when the planner is exhausted or by
\* failing at the first follow-up answered with an error status.
C29_KnownSizeTerminates ==
  KnownSizeChase =>
    /\ Len(requests) - 1 <= MaxFollowUps
    /\ \A k, l \in 2..Len(requests) : k # l => requests[k].asked # requests[l].asked
    /\ \A k \in 2..(Len(requests) - 1) : requests[k].answer.status < 400
    /\ ~Finished => ENABLED (PartialRequest \/ PartialAppend \/ PartialReturn)
    /\ Finished =>
         \/ /\ outcome = Returned /\ ~GenYields(Val(gen), total_size)
            /\ \A k \in 2..Len(requests) : requests[k].answer.status < 400
         \/ /\ Len(requests) >= 2 /\ requests[Len(requests)].answer.status >= 400
            /\ outcome = Raised("ValueError", "error status",
                                Some(requests[Len(requests)].answer.status))

C29_Witness ==
  /\ KnownSizeChase /\ Finished /\ MaxFollowUps = 2 /\ Len(requests) = 3
  /\ outcome = Returned

\* ----------------------------------------------------------------- C30
\* the response is 200 with Content-Length 0, or 206 with a Content-Range whose
\* size is 0
DeclaresZero ==
  \/ response.status = 200 /\ response.length = Some(<<"0">>)
  \/ /\ response.status = 206 /\ response.range # None
     /\ Val(response.range) \in
          {FormatContentRange(s, e, Some(0)) : s \in 0..MaxRangeStart, e \in 0..MaxRangeEnd}
            \cup {<<"b", " ", "*", "/", "0">>}

\* C30: a 200 response with Content-Length 0, or a 206 response whose
\* Content-Range size is 0, makes the fetch fail with the invalid-size error of
\* allocate_storage before a byte of the body is written or reported: no file is
\* created and what was at to_path stays.
C30_ZeroSizeFails ==
  (Finished /\ DeclaresZero) =>
    /\ outcome = Raised("ValueError", "invalid size", None)
    /\ result = None
    /\ file = file0 /\ events = <<>> /\ hookCalls = <<>>
    /\ allocs = <<0>> /\ Len(requests) = 1

C30_Witness ==
  /\ Finished /\ response.status = 206
  /\ response.range = Some(FormatContentRange(0, 0, Some(0)))
  /\ response.body # <<>> /\ ~file0.exists
  /\ outcome.why = "invalid size" /\ ~file.exists
====
